---- MODULE Spec2Model ----
(***************************************************************************)
(* A model of neuroimaging/neurospin/register/realign4d.py: the slice      *)
(* timing of a TimeSeries, the Realign4d engine (mask, SampleMatrix,       *)
(* leave-one-out variance, per-scan optimisation) and the two-level        *)
(* realign4d driver.                                                       *)
(*                                                                         *)
(* Python floats are modelled as exact rationals <<num, den>> (den > 0,    *)
(* lowest terms), so that equalities are those of real arithmetic.         *)
(***************************************************************************)
EXTENDS Integers, Sequences, FiniteSets, TLC

\* ------------------------------------------------------------------ bounds
MaxSlices == 5
MaxTr2 == 3
MaxGridTime2 == 3

\* --------------------------------------------------------------- rationals
\* Python's None where a float or an object is expected.
None == <<>>

\* A slice_order argument: a policy name (a str) or an explicit array.
Str(name) == [isstr |-> TRUE, str |-> name, arr |-> <<>>]
Arr(seq) == [isstr |-> FALSE, str |-> "", arr |-> seq]

Abs(i) == IF i < 0 THEN -i ELSE i

RECURSIVE Gcd(_, _)
Gcd(a, b) == IF b = 0 THEN a ELSE Gcd(b, a % b)

\* The float n/d (d # 0), in lowest terms with a positive denominator.
Rat(n, d) ==
    LET g == Gcd(Abs(n), Abs(d))
        s == IF d < 0 THEN -1 ELSE 1
    IN  <<(s * n) \div g, (s * d) \div g>>

FromInt(i) == <<i, 1>>
Half(k) == Rat(k, 2)
RAdd(a, b) == Rat(a[1] * b[2] + b[1] * a[2], a[2] * b[2])
RSub(a, b) == Rat(a[1] * b[2] - b[1] * a[2], a[2] * b[2])
RMul(a, b) == Rat(a[1] * b[1], a[2] * b[2])
RDiv(a, b) == Rat(a[1] * b[2], a[2] * b[1])

\* Python's range(n) as a sequence.
Range(n) == [i \in 1..n |-> i - 1]

Reverse(s) == [i \in 1..Len(s) |-> s[Len(s) + 1 - i]]

\* ------------------------------------------------------------------ arrays
\* A 4D numpy array: its shape <<dx, dy, dz, nt>> and its values, indexed by
\* <<x, y, z, t>> (all from 0).
Points4(shape) ==
    { <<x, y, z, t>> : x \in 0..(shape[1] - 1), y \in 0..(shape[2] - 1),
                       z \in 0..(shape[3] - 1), t \in 0..(shape[4] - 1) }

Zeros(shape) == [shape |-> shape, val |-> [q \in Points4(shape) |-> FromInt(0)]]

\* -------------------------------------------------- transform.Affine (rigid)
\* A rigid transform restricted to the x axis: <<s, b>> is x |-> s*x + b with
\* s = 1 (no rotation) or s = -1 (a half-turn about the origin).  Voxel-to-world
\* maps have the same form.
Identity == <<1, 0>>

\* Affine.__mul__ / np.dot: (A * B)(x) = A(B(x)).
Mul(A, B) == <<A[1] * B[1], A[1] * B[2] + A[2]>>

\* np.linalg.inv
Inv(A) == <<A[1], -(A[1] * A[2])>>

\* Affine.from_param / Affine.to_param: the parameter vector <<rot, trans>>,
\* rot counting half-turns.
from_param(p) == <<IF p[1] % 2 = 0 THEN 1 ELSE -1, p[2]>>
to_param(A) == <<IF A[1] = 1 THEN 0 ELSE 1, A[2]>>

\* transform.apply_affine on one point <<x, y, z>>.
apply_affine(T, q) == <<T[1] * q[1] + T[2], q[2], q[3]>>

VARIABLES
    pc,       \* position of the operation under study
    inp,      \* the arguments of the call under study
    series,   \* the TimeSeries object (None before construction)
    tcall,    \* the last totime / fromtime call: slice, grid time, results
    r,        \* the Realign4d object (None before construction)
    fr,       \* the local variables of realign4d / _realign4d / correct_motion
    log       \* history: what has been called so far (not program state)

vars == <<pc, inp, series, tcall, r, fr, log>>

\* -------------------------------------------------------------- TimeSeries

\* routines.slice_time(z, tr_slices, slice_order): the offset of slice z in
\* one repetition, its acquisition rank scaled by the inter-slice time.
slice_time(z, tr_slices, slice_order) ==
    RMul(tr_slices, FromInt(slice_order[z + 1]))

\* The loop "for i in range(p): aux.extend([i, p+i])".
RECURSIVE Interleave(_, _)
Interleave(i, p) ==
    IF i >= p THEN <<>> ELSE <<i, p + i>> \o Interleave(i + 1, p)

\* Mutant: the last slice of an odd count is not appended.
NamedSliceOrderNoLast(nslices, slice_order, interleaved) ==
    LET p == nslices \div 2
        aux0 == IF ~interleaved THEN Range(nslices) ELSE Interleave(0, p)
    IN  IF slice_order.str = "descending" THEN Reverse(aux0) ELSE aux0

\* The slice order TimeSeries.__init__ sets for a named policy.
NamedSliceOrder(nslices, slice_order, interleaved) ==
    LET p == nslices \div 2
        aux0 == IF ~interleaved
                THEN Range(nslices)
                ELSE Interleave(0, p) \o
                     (IF nslices % 2 # 0 THEN <<nslices - 1>> ELSE <<>>)
    IN  IF slice_order.str = "descending" THEN Reverse(aux0) ELSE aux0

\* TimeSeries.__init__
TimeSeriesInit(array, toworld, tr, tr_slices, start, slice_axis, reversed_slices, slice_order, interleaved) ==
    LET nslices == array.shape[slice_axis + 1] IN
    [ array           |-> array,
      toworld         |-> toworld,
      nslices         |-> nslices,
      tr              |-> tr,
      tr_slices       |-> IF tr_slices = None
                          THEN RDiv(tr, FromInt(nslices))
                          ELSE tr_slices,
      start           |-> start,
      slice_order     |-> IF slice_order.isstr
                          THEN NamedSliceOrder(nslices, slice_order, interleaved)
                          ELSE slice_order.arr,
      reversed_slices |-> reversed_slices ]

z_to_slice(self, z) ==
    IF self.reversed_slices THEN self.nslices - 1 - z ELSE z

totime(self, z, t) ==
    RAdd(RAdd(self.start, RMul(self.tr, t)),
         slice_time(z_to_slice(self, z), self.tr_slices, self.slice_order))

\* Mutant: the slice index is not passed through z_to_slice.
fromtimeRawSlice(self, z, t) ==
    RDiv(RSub(RSub(t, self.start),
              slice_time(z, self.tr_slices, self.slice_order)),
         self.tr)

fromtime(self, z, t) ==
    RDiv(RSub(RSub(t, self.start),
              slice_time(z_to_slice(self, z), self.tr_slices, self.slice_order)),
         self.tr)

\* ---------------------------------------------- specification: slice timing
Policies == {"ascending", "descending"}

ExplicitOrders(n) == [1..n -> 0..(n - 1)]

TSInputs ==
    { [ array |-> Zeros(<<1, 1, n, 1>>), tr |-> Half(k), tr_slices |-> s, start |-> st,
        reversed_slices |-> rv, slice_order |-> so, interleaved |-> il ] :
        n \in 1..MaxSlices, k \in 1..MaxTr2,
        s \in {None, FromInt(0), Half(1)}, st \in {FromInt(0), Half(-3)},
        rv \in BOOLEAN, so \in {Str(q) : q \in Policies}, il \in BOOLEAN }
    \cup
    UNION { { [ array |-> Zeros(<<1, 1, n, 1>>), tr |-> FromInt(1), tr_slices |-> None,
                start |-> FromInt(0), reversed_slices |-> rv,
                slice_order |-> Arr(q), interleaved |-> FALSE ] :
              rv \in BOOLEAN, q \in ExplicitOrders(n) } : n \in 1..2 }

InitTS ==
    /\ pc = "ts_new"
    /\ inp \in TSInputs
    /\ series = None
    /\ tcall = None
    /\ r = None
    /\ fr = None
    /\ log = None

Construct ==
    /\ pc = "ts_new"
    /\ series' = TimeSeriesInit(inp.array, Identity, inp.tr, inp.tr_slices,
                                inp.start, 2, inp.reversed_slices,
                                inp.slice_order, inp.interleaved)
    /\ pc' = "ts_ready"
    /\ UNCHANGED <<inp, tcall, r, fr, log>>

ToTime ==
    /\ pc = "ts_ready"
    /\ \E z \in 0..(series.nslices - 1), k \in 0..MaxGridTime2 :
          tcall' = [ z |-> z, t |-> Half(k),
                     time |-> totime(series, z, Half(k)), back |-> None ]
    /\ pc' = "ts_timed"
    /\ UNCHANGED <<inp, series, r, fr, log>>

FromTime ==
    /\ pc = "ts_timed"
    /\ tcall' = [tcall EXCEPT !.back = fromtime(series, tcall.z, tcall.time)]
    /\ pc' = "ts_back"
    /\ UNCHANGED <<inp, series, r, fr, log>>

NextTS == Construct \/ ToTime \/ FromTime

SpecTS == InitTS /\ [][NextTS]_vars

\* ---------------------------------------------------------------- Realign4d
DEFAULT_SPEEDUP == 4
DEFAULT_OPTIMIZER == "powell"
DEFAULT_WITHIN_LOOPS == 2
DEFAULT_BETWEEN_LOOPS == 5

\* Python's int() of a float: truncation towards zero.
PyInt(q) == IF q[1] >= 0 THEN q[1] \div q[2] ELSE -((-q[1]) \div q[2])

Max(a, b) == IF a >= b THEN a ELSE b

\* Mutant: the speedup is rounded to the nearest integer, not truncated.
MaskStrideRounded(speedup) ==
    Max(1, (2 * speedup[1] + speedup[2]) \div (2 * speedup[2]))

\* speedup = max(1, int(speedup))
MaskStride(speedup) == Max(1, PyInt(speedup))

\* One axis of np.mgrid[0:stop:step]: start, start+step, ... below stop.
RECURSIVE Slice(_, _, _)
Slice(start, stop, step) ==
    IF start >= stop THEN <<>> ELSE <<start>> \o Slice(start + step, stop, step)

\* np.mgrid[...] of three axes reshaped to 3 x N: the points in C order, as a
\* sequence of <<x, y, z>>.
GridPoints(xs, ys, zs) ==
    LET ny == Len(ys)
        nz == Len(zs)
    IN  [ i \in 1..(Len(xs) * ny * nz) |->
            << xs[((i - 1) \div (ny * nz)) + 1],
               ys[(((i - 1) \div nz) % ny) + 1],
               zs[((i - 1) % nz) + 1] >> ]

\* routines.cspline_transform and routines.cspline_sample4d at one point: the
\* interpolating spline gives the array's own value at a grid knot; outside the
\* volume the sampler returns zero.  T is a float, the others integers.
cspline_transform(array) == array

cspline_sample4d(cbspline, X, Y, Z, T) ==
    IF /\ T[2] = 1
       /\ <<X, Y, Z, T[1]>> \in DOMAIN cbspline.val
    THEN cbspline.val[<<X, Y, Z, T[1]>>]
    ELSE FromInt(0)

grid_coords(xyz, affine, fromworld, toworld) ==
    LET Tv == Mul(fromworld, Mul(affine, toworld))
    IN  [i \in 1..Len(xyz) |-> apply_affine(Tv, xyz[i])]

\* The column of samples of scan t (from 0) at the points xyz, under the
\* transform stored for t.
SampleScan(self, xyz, t) ==
    LET XYZ == grid_coords(xyz, self.transforms[t + 1], self.fromworld, self.toworld)
    IN  [ i \in 1..Len(xyz) |->
            cspline_sample4d(self.cbspline, XYZ[i][1], XYZ[i][2], XYZ[i][3],
                             fromtime(self.time_series, XYZ[i][3],
                                      self.timestamps[t + 1])) ]

\* Realign4d.__init__
Realign4dInit(time_series, speedup, optimizer, transforms) ==
    LET dims == time_series.array.shape
        nscans == dims[4]
        k == MaskStride(speedup)
        xyz == GridPoints(Slice(0, dims[1], k), Slice(0, dims[2], k),
                          Slice(0, dims[3], k))
        masksize == Len(xyz)
    IN  [ optimizer   |-> optimizer,
          dims        |-> dims,
          nscans      |-> nscans,
          xyz         |-> xyz,
          data        |-> [t \in 1..nscans |-> [i \in 1..masksize |-> FromInt(0)]],
          toworld     |-> time_series.toworld,
          fromworld   |-> Inv(time_series.toworld),
          transforms  |-> IF transforms = None
                          THEN [scan \in 1..nscans |-> Identity]
                          ELSE transforms,
          time_series |-> time_series,
          timestamps  |-> [t \in 1..nscans |-> RMul(time_series.tr, FromInt(t - 1))],
          cbspline    |-> cspline_transform(time_series.array),
          m1          |-> None,
          d2          |-> None,
          alpha       |-> None,
          beta        |-> None ]

\* Realign4d.resample_inmask
resample_inmask(self, t) ==
    [self EXCEPT !.data[t + 1] = SampleScan(self, self.xyz, t)]

\* Realign4d.resample_all_inmask
RECURSIVE resample_from(_, _)
resample_from(self, t) ==
    IF t >= self.nscans THEN self
    ELSE resample_from(resample_inmask(self, t), t + 1)

resample_all_inmask(self) == resample_from(self, 0)

\* Sum and mean of a sequence of floats.
RECURSIVE RSum(_)
RSum(s) == IF s = <<>> THEN FromInt(0) ELSE RAdd(s[1], RSum(Tail(s)))

RMean(s) == RDiv(RSum(s), FromInt(Len(s)))

\* numpy's var: the mean of the squared deviations from the mean.
RVar(s) ==
    LET m == RMean(s)
    IN  RMean([i \in 1..Len(s) |-> RMul(RSub(s[i], m), RSub(s[i], m))])

\* Row i of the columns listed in cols (scan numbers from 0).
Row(self, i, cols) == [j \in 1..Len(cols) |-> self.data[cols[j] + 1][i]]

\* Mutant: t is not removed from range(nscans).
FixedAll(nscans, t) == Range(nscans)

\* range(nscans) with t removed.
Fixed(nscans, t) ==
    [j \in 1..(nscans - 1) |-> IF j - 1 < t THEN j - 1 ELSE j]

\* Realign4d.init_motion_detection
init_motion_detection(self, t) ==
    LET s == resample_inmask(self, t)
        fixed == Fixed(s.nscans, t)
        n == FromInt(s.nscans)
        rows == [i \in 1..Len(s.xyz) |-> Row(s, i, fixed)]
    IN  [s EXCEPT
           !.m1 = [i \in 1..Len(s.xyz) |-> RMean(rows[i])],
           !.d2 = [i \in 1..Len(s.xyz) |-> FromInt(0)],
           !.alpha = RMul(RDiv(RSub(n, FromInt(1)), n),
                          RMean([i \in 1..Len(s.xyz) |-> RVar(rows[i])])),
           !.beta = RDiv(RSub(n, FromInt(1)), RMul(n, n))]

\* Realign4d.msid: the object after the call, and the value returned.
msid_state(self, t) ==
    LET s == resample_inmask(self, t)
    IN  [s EXCEPT !.d2 = [i \in 1..Len(s.xyz) |->
                            RMul(RSub(s.data[t + 1][i], s.m1[i]),
                                 RSub(s.data[t + 1][i], s.m1[i]))]]

msid(self, t) == RMean(msid_state(self, t).d2)

\* Realign4d.variance
variance(self, t) == RAdd(self.alpha, RMul(self.beta, msid(self, t)))

\* Realign4d.safe_variance (m and m2 are scratch arrays of the call).
safe_variance(self, t) ==
    LET s == resample_inmask(self, t)
        all == Range(s.nscans)
        m == [i \in 1..Len(s.xyz) |-> RMean(Row(s, i, all))]
        m2 == [i \in 1..Len(s.xyz) |->
                 RMean([j \in 1..s.nscans |->
                          RMul(Row(s, i, all)[j], Row(s, i, all)[j])])]
    IN  RMean([i \in 1..Len(s.xyz) |-> RSub(m2[i], RMul(m[i], m[i]))])

\* Realign4d.resample: the corrected 4D array on the full grid.
resample(self) ==
    LET dims == self.dims
        XYZ == GridPoints(Slice(0, dims[1], 1), Slice(0, dims[2], 1),
                          Slice(0, dims[3], 1))
        col == [t \in 1..self.nscans |-> SampleScan(self, XYZ, t - 1)]
        idx(q) == q[1] * dims[2] * dims[3] + q[2] * dims[3] + q[3] + 1
    IN  [ shape |-> dims,
          val |-> [q \in Points4(dims) |-> col[q[4] + 1][idx(q)]] ]

\* ------------------------------------------------ specification: the mask
MaxDim == 3
MaxSpeedup2 == 7

MaskInputs ==
    { [ dims |-> <<dx, dy, dz, 2>>, speedup |-> Half(k) ] :
        dx \in 0..MaxDim, dy \in 0..MaxDim, dz \in 0..MaxDim,
        k \in (-2)..MaxSpeedup2 }

InitMask ==
    /\ pc = "mask_new"
    /\ inp \in MaskInputs
    /\ series = None
    /\ tcall = None
    /\ r = None
    /\ fr = None
    /\ log = None

NewMaskEngine ==
    /\ pc = "mask_new"
    /\ r' = Realign4dInit(
              TimeSeriesInit(Zeros(inp.dims), Identity, FromInt(1), FromInt(0),
                             FromInt(0), 2, FALSE, Str("ascending"), FALSE),
              inp.speedup, DEFAULT_OPTIMIZER, None)
    /\ pc' = "mask_ready"
    /\ UNCHANGED <<inp, series, tcall, fr, log>>

NextMask == NewMaskEngine

SpecMask == InitMask /\ [][NextMask]_vars

\* ------------------------------------------- specification: realign4d
NX == 3
NScans == 2
MaxRuns == 2
MaxLoops == 2
MaxEvals == 2
MaxShift == 1

Recognized == {"simplex", "powell", "conjugate gradient"}
Optimizers == Recognized \cup {"newton"}

\* The parameter vectors the minimiser may try: no motion, a half-turn, and
\* shifts of up to MaxShift voxels.
TrialParams == {<<0, 0>>, <<1, 0>>} \cup { <<0, b>> : b \in 1..MaxShift }

\* Run number k (from 1): NX voxels along x, NScans scans, with the world
\* origin at voxel 1.
RunArray(k) ==
    [ shape |-> <<NX, 1, 1, NScans>>,
      val |-> [q \in Points4(<<NX, 1, 1, NScans>>) |->
                 FromInt(1 + q[1] * q[1] + k * q[4] + k * q[1] * q[4])] ]

Run(k) ==
    TimeSeriesInit(RunArray(k), <<1, -1>>, FromInt(2), None, FromInt(0), 2,
                   FALSE, Str("ascending"), FALSE)

\* The runs argument: a bare TimeSeries or a list of them.
Bare(ts) == [islist |-> FALSE, one |-> ts, list |-> <<>>]
List(l) == [islist |-> TRUE, one |-> Run(1), list |-> l]

RealignInputs ==
    { [ runs |-> rs, within_loops |-> w, between_loops |-> b,
        speedup |-> FromInt(2), optimizer |-> o ] :
        rs \in {Bare(Run(1))} \cup
               { List([k \in 1..n |-> Run(k)]) : n \in 1..MaxRuns },
        w \in 0..MaxLoops, b \in 0..MaxLoops, o \in Optimizers }

\* corr_run.mean(3) of every run, stacked along a new last axis:
\* np.rollaxis(np.asarray([...]), 0, 4).
MeanStack(corr_runs) ==
    LET d == corr_runs[1].shape
        shape == <<d[1], d[2], d[3], Len(corr_runs)>>
    IN  [ shape |-> shape,
          val |-> [q \in Points4(shape) |->
                     RMean([t \in 1..corr_runs[q[4] + 1].shape[4] |->
                              corr_runs[q[4] + 1].val[<<q[1], q[2], q[3], t - 1>>]])] ]

\* resample4d(time_series, transforms): the engine it builds and its result.
resample4d_engine(time_series, transforms) ==
    Realign4dInit(time_series, FromInt(DEFAULT_SPEEDUP), DEFAULT_OPTIMIZER, transforms)

resample4d(time_series, transforms) ==
    resample(resample4d_engine(time_series, transforms))

\* The series _realign4d is working on and its loop count.
CurrentSeries == IF fr.phase = "within" THEN fr.runs[fr.i + 1] ELSE fr.mean_img
\* Mutant: the between-run pass is given within_loops.
CurrentLoopsWithin == inp.within_loops

CurrentLoops == IF fr.phase = "within" THEN inp.within_loops ELSE inp.between_loops

\* Mutant: the list holds one shared Affine object, so every entry changes.
SetParamShared(self, t, p) ==
    [self EXCEPT !.transforms = [k \in 1..self.nscans |-> from_param(p)]]

\* The transform list with entry t (from 0) set by from_param(p), in place.
SetParam(self, t, p) == [self EXCEPT !.transforms[t + 1] = from_param(p)]

InitRealign ==
    /\ pc = "call"
    /\ inp \in RealignInputs
    /\ series = None
    /\ tcall = None
    /\ r = None
    /\ fr = None
    /\ log = [ engines |-> 0, full |-> 0, inmask |-> FALSE, order |-> <<>>,
               cm |-> <<>>, within |-> <<>> ]

\* realign4d, lines 271-274: a bare TimeSeries becomes a list of one.
RealignBegin ==
    /\ pc = "call"
    /\ LET runs == IF ~inp.runs.islist THEN <<inp.runs.one>> ELSE inp.runs.list
       IN  fr' = [ runs |-> runs, nruns |-> Len(runs), phase |-> "within",
                   i |-> 0, loop |-> 0, t |-> 0, pc0 |-> None,
                   evaluated |-> {}, nevals |-> 0, transfo_runs |-> <<>>,
                   corr_runs |-> <<>>, mean_img |-> None,
                   transfo_mean |-> None, result |-> None ]
    /\ pc' = "realign"
    /\ UNCHANGED <<inp, series, tcall, r, log>>

\* _realign4d, line 247: a new engine for the series.
NewEngine ==
    /\ pc = "realign"
    /\ r' = Realign4dInit(CurrentSeries, inp.speedup, inp.optimizer, None)
    /\ fr' = [fr EXCEPT !.loop = 0]
    /\ log' = [log EXCEPT !.engines = @ + 1, !.cm = Append(@, 0)]
    /\ pc' = "loop"
    /\ UNCHANGED <<inp, series, tcall>>

\* correct_motion, lines 184-191: the optimizer is not one of the three.
CorrectMotionRaise ==
    /\ pc = "loop"
    /\ fr.loop < CurrentLoops
    /\ r.optimizer \notin Recognized
    /\ pc' = "raised"
    /\ UNCHANGED <<inp, series, tcall, r, fr, log>>

\* correct_motion, lines 184-194: fmin is chosen and every scan resampled.
CorrectMotionBegin ==
    /\ pc = "loop"
    /\ fr.loop < CurrentLoops
    /\ r.optimizer \in Recognized
    /\ r' = resample_all_inmask(r)
    /\ fr' = [fr EXCEPT !.t = 0]
    /\ log' = [log EXCEPT !.inmask = TRUE, !.order = <<>>]
    /\ pc' = "scan"
    /\ UNCHANGED <<inp, series, tcall>>

\* correct_motion, lines 197-205: the next scan, up to the call of fmin.
InitMotion ==
    /\ pc = "scan"
    /\ fr.t < r.nscans
    /\ r' = init_motion_detection(r, fr.t)
    /\ fr' = [fr EXCEPT !.pc0 = to_param(r.transforms[fr.t + 1]),
                        !.evaluated = {}, !.nevals = 0]
    /\ log' = [log EXCEPT !.order = Append(@, fr.t)]
    /\ pc' = "fmin"
    /\ UNCHANGED <<inp, series, tcall>>

\* loss(pc), lines 200-202: one evaluation by the minimiser, the first one at
\* the start point pc0.
Loss ==
    /\ pc = "fmin"
    /\ fr.nevals < MaxEvals
    /\ \E p \in TrialParams :
          /\ fr.evaluated = {} => p = fr.pc0
          /\ r' = msid_state(SetParam(r, fr.t, p), fr.t)
          /\ fr' = [fr EXCEPT !.evaluated = @ \cup {p}, !.nevals = @ + 1]
    /\ UNCHANGED <<pc, inp, series, tcall, log>>

\* callback(pc), lines 180-182: the minimiser reports an iterate.
Callback ==
    /\ pc = "fmin"
    /\ \E p \in fr.evaluated : r' = SetParam(r, fr.t, p)
    /\ UNCHANGED <<pc, inp, series, tcall, fr, log>>

\* lines 206-207: fmin returns one of the vectors it evaluated.
FminReturn ==
    /\ pc = "fmin"
    /\ \E p \in fr.evaluated : r' = SetParam(r, fr.t, p)
    /\ fr' = [fr EXCEPT !.t = @ + 1, !.pc0 = None, !.evaluated = {}, !.nevals = 0]
    /\ pc' = "scan"
    /\ UNCHANGED <<inp, series, tcall, log>>

\* correct_motion returns; _realign4d, line 248, counts the loop.
CorrectMotionEnd ==
    /\ pc = "scan"
    /\ fr.t >= r.nscans
    /\ fr' = [fr EXCEPT !.loop = @ + 1]
    /\ log' = [log EXCEPT !.cm[Len(log.cm)] = @ + 1]
    /\ pc' = "loop"
    /\ UNCHANGED <<inp, series, tcall, r>>

\* _realign4d returns r.transforms into the list of line 277.
WithinReturn ==
    /\ pc = "loop"
    /\ fr.phase = "within"
    /\ fr.loop >= CurrentLoops
    /\ fr' = [fr EXCEPT !.transfo_runs = Append(@, r.transforms), !.i = @ + 1]
    /\ log' = [log EXCEPT !.within = Append(@, r.transforms)]
    /\ pc' = IF fr.i + 1 < fr.nruns THEN "realign" ELSE "runs_done"
    /\ UNCHANGED <<inp, series, tcall, r>>

\* Mutant: the nested list is returned.
SingleResultNested(transfo_runs) == transfo_runs

\* return transfo_runs[0]
SingleResult(transfo_runs) == transfo_runs[1]

\* lines 278-279
SingleRunReturn ==
    /\ pc = "runs_done"
    /\ fr.nruns = 1
    /\ fr' = [fr EXCEPT !.result = SingleResult(fr.transfo_runs)]
    /\ pc' = "returned"
    /\ UNCHANGED <<inp, series, tcall, r, log>>

\* lines 282-286: every corrected run, their mean images, the fake series.
MeanImage ==
    /\ pc = "runs_done"
    /\ fr.nruns # 1
    /\ LET corr_runs == [i \in 1..fr.nruns |->
                           resample4d(fr.runs[i], fr.transfo_runs[i])]
           aux == MeanStack(corr_runs)
       IN  /\ fr' = [fr EXCEPT
                       !.corr_runs = corr_runs,
                       !.mean_img = TimeSeriesInit(aux, fr.runs[1].toworld,
                                       FromInt(1), FromInt(0), FromInt(0), 2,
                                       FALSE, Str("ascending"), FALSE),
                       !.phase = "between"]
           /\ r' = resample4d_engine(fr.runs[fr.nruns], fr.transfo_runs[fr.nruns])
    /\ log' = [log EXCEPT !.engines = @ + fr.nruns, !.full = @ + fr.nruns]
    /\ pc' = "realign"
    /\ UNCHANGED <<inp, series, tcall>>

\* _realign4d returns the between-run transforms, line 287; line 288.
BetweenReturn ==
    /\ pc = "loop"
    /\ fr.phase = "between"
    /\ fr.loop >= CurrentLoops
    /\ fr' = [fr EXCEPT !.transfo_mean = r.transforms]
    /\ r' = resample4d_engine(fr.mean_img, r.transforms)
    /\ log' = [log EXCEPT !.engines = @ + 1, !.full = @ + 1]
    /\ pc' = "compose"
    /\ UNCHANGED <<inp, series, tcall>>

\* Mutant: the within-run transform is on the left.
ComposeRunsSwapped(transfo_mean, transfo_runs) ==
    [ i \in 1..Len(transfo_runs) |->
        [ j \in 1..Len(transfo_runs[i]) |->
            Mul(transfo_runs[i][j], transfo_mean[i]) ] ]

\* lines 291-296
ComposeRuns(transfo_mean, transfo_runs) ==
    [ i \in 1..Len(transfo_runs) |->
        [ j \in 1..Len(transfo_runs[i]) |->
            Mul(transfo_mean[i], transfo_runs[i][j]) ] ]

Compose ==
    /\ pc = "compose"
    /\ LET out == ComposeRuns(fr.transfo_mean, fr.transfo_runs)
       IN  fr' = [fr EXCEPT !.transfo_runs = out, !.result = out]
    /\ pc' = "returned"
    /\ UNCHANGED <<inp, series, tcall, r, log>>

Next ==
    \/ RealignBegin \/ NewEngine \/ CorrectMotionRaise \/ CorrectMotionBegin
    \/ InitMotion \/ Loss \/ Callback \/ FminReturn \/ CorrectMotionEnd
    \/ WithinReturn \/ SingleRunReturn \/ MeanImage \/ BetweenReturn \/ Compose

Init == InitRealign

Spec == Init /\ [][Next]_vars

\* ------------------------------- specification: the leave-one-out variance
VarVoxels == 2
VarScans == 3
MaxIntensity == 1

VarShape(n) == <<VarVoxels, 1, 1, n>>

\* Every array of n scans with intensities up to MaxIntensity.
VarInputs(n) ==
    { [ shape |-> VarShape(n),
        val |-> [q \in Points4(VarShape(n)) |-> FromInt(f[q])] ] :
      f \in [Points4(VarShape(n)) -> 0..MaxIntensity] }

InitVar ==
    /\ pc = "var_new"
    /\ \E n \in 2..VarScans : inp \in VarInputs(n)
    /\ series = None
    /\ tcall = None
    /\ r = None
    /\ fr = None
    /\ log = [det |-> -1, v |-> None]

\* An engine over every voxel of the array.
VarNewEngine ==
    /\ pc = "var_new"
    /\ r' = Realign4dInit(
              TimeSeriesInit(inp, Identity, FromInt(1), None, FromInt(0), 2,
                             FALSE, Str("ascending"), FALSE),
              FromInt(1), DEFAULT_OPTIMIZER, None)
    /\ pc' = "var_moving"
    /\ UNCHANGED <<inp, series, tcall, fr, log>>

\* transforms[t].from_param(p), for any scan before the detection starts and
\* for the scan under detection afterwards.
VarFromParam ==
    /\ pc \in {"var_moving", "var_det"}
    /\ \E t \in 0..(r.nscans - 1), p \in TrialParams :
          /\ pc = "var_det" => t = log.det
          /\ r' = SetParam(r, t, p)
    /\ UNCHANGED <<pc, inp, series, tcall, fr, log>>

VarResampleAll ==
    /\ pc = "var_moving"
    /\ r' = resample_all_inmask(r)
    /\ pc' = "var_resampled"
    /\ UNCHANGED <<inp, series, tcall, fr, log>>

VarInitMotionDetection ==
    /\ pc = "var_resampled"
    /\ \E t \in 0..(r.nscans - 1) :
          /\ r' = init_motion_detection(r, t)
          /\ log' = [log EXCEPT !.det = t]
    /\ pc' = "var_det"
    /\ UNCHANGED <<inp, series, tcall, fr>>

\* variance(t): the value returned is kept in log.v.
VarVariance ==
    /\ pc = "var_det"
    /\ r' = msid_state(r, log.det)
    /\ log' = [log EXCEPT !.v = variance(r, log.det)]
    /\ UNCHANGED <<pc, inp, series, tcall, fr>>

\* safe_variance(t): column t is resampled; m and m2 are scratch arrays.
VarSafeVariance ==
    /\ pc = "var_det"
    /\ r' = resample_inmask(r, log.det)
    /\ UNCHANGED <<pc, inp, series, tcall, fr, log>>

NextVar ==
    \/ VarNewEngine \/ VarFromParam \/ VarResampleAll
    \/ VarInitMotionDetection \/ VarVariance \/ VarSafeVariance

SpecVar == InitVar /\ [][NextVar]_vars

\* ============================================================== properties

\* ---- C1 (SpecTS) ----
\* C1: for every TimeSeries, valid slice index z and grid time t,
\* fromtime(z, totime(z, t)) = t.
C1_RoundTrip == pc = "ts_back" => tcall.back = tcall.t

\* A round trip on a reversed series, a slice with a non-zero slice time, a
\* non-zero start and a fractional grid time.
C1_Witness ==
    /\ pc = "ts_back"
    /\ series.reversed_slices
    /\ series.start # FromInt(0)
    /\ series.tr = Half(3)
    /\ tcall.z = 0
    /\ tcall.t = Half(3)
    /\ slice_time(z_to_slice(series, tcall.z), series.tr_slices,
                  series.slice_order) # FromInt(0)
    /\ tcall.time # tcall.t
    /\ tcall.back = tcall.t

\* ---- C2 (SpecTS) ----
IsPermutation(s, n) ==
    /\ Len(s) = n
    /\ \A v \in 0..(n - 1) : Cardinality({i \in 1..n : s[i] = v}) = 1

\* C2: for a named policy the slice order the constructor builds is a
\* permutation of 0..nslices-1.
C2_Permutation ==
    (pc # "ts_new" /\ inp.slice_order.isstr)
        => IsPermutation(series.slice_order, inp.array.shape[3])

\* Five slices, interleaved and descending: [0,2,1,3,4] reversed.
C2_Witness ==
    /\ pc = "ts_ready"
    /\ inp.slice_order = Str("descending")
    /\ inp.interleaved
    /\ series.nslices = 5
    /\ series.slice_order = <<4, 3, 1, 2, 0>>

\* ---- C7 (SpecMask) ----
CeilDiv(a, b) == (a + b - 1) \div b

\* The stride the claim states: 1 below 1, else the integer part.
ClaimedStride(speedup) ==
    IF speedup[1] < speedup[2] THEN 1 ELSE speedup[1] \div speedup[2]

\* C7: the mask holds exactly the grid points whose coordinates are multiples
\* of k = max(1, int(speedup)), ceil(dx/k)*ceil(dy/k)*ceil(dz/k) of them (all
\* voxels for a speedup of 1), and the SampleMatrix is mask-size by nscans.
C7_MaskStride ==
    pc = "mask_ready" =>
        LET k == ClaimedStride(inp.speedup)
            d == inp.dims
            pts == { r.xyz[i] : i \in 1..Len(r.xyz) }
        IN  /\ pts = { <<x, y, z>> \in (0..(d[1] - 1)) \X (0..(d[2] - 1)) \X (0..(d[3] - 1)) :
                         x % k = 0 /\ y % k = 0 /\ z % k = 0 }
            /\ Cardinality(pts) = Len(r.xyz)
            /\ Len(r.xyz) = CeilDiv(d[1], k) * CeilDiv(d[2], k) * CeilDiv(d[3], k)
            /\ (inp.speedup = FromInt(1) => Len(r.xyz) = d[1] * d[2] * d[3])
            /\ Len(r.data) = d[4]
            /\ \A t \in 1..d[4] : Len(r.data[t]) = Len(r.xyz)

\* A 3x3x2 volume with a speedup of 2.5: stride 2, so 2*2*1 points.
C7_Witness ==
    /\ pc = "mask_ready"
    /\ inp.dims = <<3, 3, 2, 2>>
    /\ inp.speedup = Half(5)
    /\ Len(r.xyz) = 4
    /\ r.xyz[4] = <<2, 2, 0>>

\* ---- C6 (SpecVar) ----
\* C6: after init_motion_detection(t), with the other columns untouched,
\* variance(t) = alpha + beta*msid(t) equals safe_variance(t).
C6_LeaveOneOut ==
    pc = "var_det" => variance(r, log.det) = safe_variance(r, log.det)

\* variance(t) was called on a moved scan and returned a non-zero value with
\* both terms of the decomposition non-zero.
C6_Witness ==
    /\ pc = "var_det"
    /\ log.v # None
    /\ log.v = safe_variance(r, log.det)
    /\ log.v # FromInt(0)
    /\ r.alpha # FromInt(0)
    /\ msid(r, log.det) # FromInt(0)
    /\ r.transforms[log.det + 1] # Identity

\* ---- C3 (Spec) ----
\* C3: with an unrecognized optimizer, realign4d raises (it never returns) and
\* no resampling has happened by then.
C3_RaisedBeforeWork ==
    (pc # "call" /\ inp.optimizer \notin Recognized)
        => /\ pc # "returned"
           /\ log.full = 0
           /\ ~log.inmask

C5_Composition ==
    (pc = "returned" /\ fr.nruns >= 2)
        => /\ Len(fr.result) = fr.nruns
           /\ \A k \in 1..fr.nruns :
                /\ Len(fr.result[k]) = fr.runs[k].array.shape[4]
                /\ \A j \in 1..Len(fr.result[k]) :
                     fr.result[k][j] = Mul(fr.transfo_mean[k], log.within[k][j])

\* A between-run half-turn composed with a within-run shift, which do not
\* commute.
C5_Witness ==
    /\ pc = "returned"
    /\ fr.nruns = 2
    /\ fr.transfo_mean[2] = from_param(<<1, 0>>)
    /\ log.within[2][1] = from_param(<<0, 1>>)
    /\ fr.result[2][1] = <<-1, -1>>
    /\ Mul(log.within[2][1], fr.transfo_mean[2]) # fr.result[2][1]

\* ---- C8 (Spec) ----
\* C8: when init_motion_detection(t) has just computed m1 and alpha, every
\* other column holds the resampling of its scan under the transform stored
\* for that scan.
C8_CurrentColumns ==
    (pc = "fmin" /\ fr.evaluated = {})
        => \A u \in 0..(r.nscans - 1) :
              u # fr.t => r.data[u + 1] = SampleScan(r, r.xyz, u)

\* ---- C9 (Spec) ----
\* The scans optimised so far in this correct_motion call are 0, 1, ... in
\* order, each once.
C9_Order ==
    /\ pc = "scan" => (log.order = Range(fr.t) /\ fr.t <= r.nscans)
    /\ pc = "fmin" => (log.order = Range(fr.t + 1) /\ fr.t < r.nscans)

\* While scan t is optimised no other scan's transform or column changes,
\* and a call ends when every scan has been optimised.
C9_Frame ==
    /\ (pc = "fmin" \/ (pc = "scan" /\ pc' = "fmin"))
          => \A u \in 0..(r.nscans - 1) :
                u # fr.t => /\ r'.transforms[u + 1] = r.transforms[u + 1]
                            /\ r'.data[u + 1] = r.data[u + 1]
    /\ (pc = "scan" /\ pc' = "loop") => log.order = Range(r.nscans)

\* C9: within one correct_motion call the scans are optimised one at a time in
\* increasing order, each once, and optimising scan t changes only
\* transforms[t] and column t.
C9_Sequential == []C9_Order /\ [][C9_Frame]_vars

\* A call has optimised both scans and moved both.
C9_Witness ==
    /\ pc = "scan"
    /\ fr.t = r.nscans
    /\ log.order = <<0, 1>>
    /\ r.transforms = <<from_param(<<1, 0>>), from_param(<<0, 1>>)>>

\* ---- C10 (Spec) ----
C10_State ==
    /\ (pc = "loop" /\ fr.loop = 0) =>
          \A k \in 1..r.nscans : r.transforms[k] = Identity
    /\ (pc \in {"loop", "scan", "fmin"} /\ fr.phase = "within") =>
          /\ r.cbspline = fr.runs[fr.i + 1].array
          /\ Len(log.cm) = fr.i + 1
    /\ (pc # "call" /\ fr.phase = "between") =>
          /\ Len(log.within) = fr.nruns
          /\ \A k \in 1..fr.nruns : log.cm[k] = inp.within_loops
          /\ fr.mean_img.array.shape[4] = fr.nruns
          /\ fr.mean_img.tr = FromInt(1)
          /\ fr.mean_img.tr_slices = FromInt(0)
    /\ (pc \in {"compose", "returned"} /\ fr.nruns >= 2) =>
          /\ Len(log.cm) = fr.nruns + 1
          /\ log.cm[fr.nruns + 1] = inp.between_loops
          /\ Len(fr.transfo_mean) = fr.nruns

C10_Step ==
    /\ (pc = "loop" /\ pc' = "scan") => r'.transforms = r.transforms
    /\ (pc = "scan" /\ pc' = "loop") => r' = r
    /\ (pc \in {"realign", "loop", "scan", "fmin"} /\ fr.phase = "within") =>
          \A k \in 1..Len(fr.transfo_runs) :
              fr'.transfo_runs[k] = fr.transfo_runs[k]

\* C10: every run gets its own engine, starting at the identity and running
\* correct_motion within_loops times, each loop from the transforms the last
\* one left; the between-run pass starts after all of them, on a series of one
\* scan per run with tr = 1 and tr_slices = 0, runs correct_motion
\* between_loops times and gives one transform per run.
C10_TwoLevel == []C10_State /\ [][C10_Step]_vars

\* Two runs, two within-run loops each, then one between-run loop.
C10_Witness ==
    /\ pc = "returned"
    /\ fr.nruns = 2
    /\ inp.within_loops = 2
    /\ inp.between_loops = 1
    /\ log.cm = <<2, 2, 1>>
    /\ fr.transfo_mean # <<Identity, Identity>>

====
